---- MODULE Spec2Model ----
(***************************************************************************)
(* Model of Hadoop::BatchHandler (src/main/native/src/BatchHandler.h):     *)
(* the native side of NativeBatchProcessor.  The handler owns an input     *)
(* ByteBuffer _ib and an output ByteBuffer _ob.  The java side calls       *)
(* onSetup / onInputData / onFinish / onCommand; a subclass, inside its    *)
(* handleInput hook, calls the protected helpers put / putInt / flush,     *)
(* which call flushOutput(length) outward when the output buffer is full.  *)
(*                                                                         *)
(* Under Spec all sizes stay far below 2^32, so the uint32_t sums of put   *)
(* and putInt are computed there without wrap-around.  SpecWidth runs one  *)
(* iteration of put's loop on 32-bit values, held as two 16-bit halves.    *)
(***************************************************************************)
EXTENDS Integers, Sequences, FiniteSets, TLC

\* ------------------------------------------------------------------ bounds
MaxOutCap == 4        \* output capacities 0..MaxOutCap are explored
MaxInLen == 2         \* onInputData lengths 0..MaxInLen are explored
MaxLen == 2           \* put lengths 0..MaxLen are explored
MaxHelperCalls == 2   \* helper calls per session, and one more flush
MaxCalls == 3         \* outward calls (flushOutput, finishOutput) per session

\* output capacities handed to onSetup; 8 is the capacity of the spec's Scenario A
OutCaps == (0..MaxOutCap) \cup {8}

\* input capacities handed to onSetup
InCaps == {0, 1}

\* lengths handed to put; 10 is the length of the spec's Scenario A
PutLens == (0..MaxLen) \cup {10}

\* lengths handed to onInputData
InputLens == 0..MaxInLen

\* requests handed to onCommand
Commands == {<<7>>}

\* values handed to putInt: 1684234849 = 0x64636261
IntValues == {1684234849}

VARIABLES
  ib,          \* _ib : [buff, capacity, position]
  ob,          \* _ob : [buff, capacity, position]
  obuf,        \* contents of the memory _ob.buff points to (capacity bytes)
  pc,          \* "idle" | "hook" (inside handleInput) | "put" (inside put's loop) | "crashed"
  putBuff,     \* put: the bytes not yet copied (buff .. buff+length)
  putIters,    \* put: iterations of the while loop done by the current call
  calls,       \* outward calls of the session, in order
  written,     \* bytes handed to put / putInt in the session, in order
  phase,       \* lifecycle position of the caller: which of onSetup / onFinish came last
  lastOp,      \* the most recent operation and its outcome
  pre,         \* output position, buffered bytes and number of outward calls when lastOp began
  nHelper,     \* helper calls made in the session
  usedHelpers, \* names of the helpers called in the session
  w            \* SpecWidth: position, length and capacity of a put at 32 bits

vars == <<ib, ob, obuf, pc, putBuff, putIters, calls, written, phase, lastOp,
          pre, nHelper, usedHelpers, w>>

\* ------------------------------------------------------------- pure parts
Min(a, b) == IF a < b THEN a ELSE b

\* ByteBuffer::ByteBuffer()
NewByteBuffer == [buff |-> "NULL", capacity |-> 0, position |-> 0]

\* ByteBuffer::reset(buff, capacity)
ByteBufferReset(buff, capacity) ==
  [buff |-> buff, capacity |-> capacity, position |-> 0]

\* the bytes of a uint32_t as the store *(uint32_t*)p = v lays them out
\* (little-endian build)
IntBytes(v) == [i \in 1..4 |-> (v \div (256 ^ (i - 1))) % 256]

\* memcpy / store of bytes at offset pos of the output memory; bytes that fall
\* outside the capacity bytes of the buffer do not land in it
Store(mem, pos, bytes) ==
  [i \in 1..Len(mem) |->
     IF i > pos /\ i <= pos + Len(bytes) THEN bytes[i - pos] ELSE mem[i]]

\* a put that flushes only once the buffer is full
PutNeedsFlush_whenFull(position, length, capacity) == position >= capacity

\* put: if (_ob.position + length > _ob.capacity)
PutNeedsFlush(position, length, capacity) == position + length > capacity

\* a put that copies all that is left, whatever room remains
PutCopyLen_noLimit(length, remain) == length

\* put: uint32_t cp = length < remain ? length : remain
PutCopyLen(length, remain) == IF length < remain THEN length ELSE remain

\* putInt: if (_ob.position + 4 > _ob.capacity)
PutIntNeedsFlush_whenFull(position, capacity) == position + 4 >= capacity
PutIntNeedsFlush(position, capacity) == position + 4 > capacity

\* a flush that does not look at the position
FlushNeeded_always(position) == TRUE
FlushNeeded_never(position) == FALSE

\* flush: if (_ob.position > 0)
FlushNeeded(position) == position > 0

\* a bounds check that is off by one
InputTooLong_offByOne(length, capacity) == length > capacity + 1

\* onInputData: if (length > _ib.capacity)
InputTooLong(length, capacity) == length > capacity

\* an onInputData that adds the chunk to what the region held
SetInputPosition_append(b, length) == [b EXCEPT !.position = b.position + length]

\* an onInputData that rebinds the region to the chunk
SetInputPosition_reset(b, length) == ByteBufferReset(b.buff, length)

\* onInputData: _ib.position = length
SetInputPosition(b, length) == [b EXCEPT !.position = length]

\* an onInputData that assigns the position before it checks the length
RefusedInput_assigned(b, length) == [b EXCEPT !.position = length]

\* onInputData: the throw comes before the assignment to _ib.position
RefusedInput(b, length) == b

\* a command that echoes its request
CommandReply_echo(cmd) == cmd

\* command(cmd): return std::string()
CommandReply(cmd) == <<>>

\* flushOutput(length): the java side takes length bytes from offset 0 of the
\* output buffer; the buffer holds capacity bytes
FlushCall(length) ==
  [call |-> "flushOutput", length |-> length,
   bytes |-> SubSeq(obuf, 1, Min(length, Len(obuf)))]

\* finishOutput()
FinishCall == [call |-> "finishOutput", length |-> 0, bytes |-> <<>>]

\* the bytes of the output region [0, position) that the buffer holds
Buffered == SubSeq(obuf, 1, Min(ob.position, Len(obuf)))

Snapshot == [position |-> ob.position, bytes |-> Buffered, ncalls |-> Len(calls)]

\* the record of an operation; ipos is the input position an onInputData
\* call found (0 for the other operations)
Op(op, len, data, fault, hook) ==
  [op |-> op, len |-> len, data |-> data, phase |-> phase,
   fault |-> fault, hook |-> hook, ipos |-> 0]

\* the data of a put call: the bytes 1, 2, ..., n
PutData(n) == [i \in 1..n |-> i]

\* ------------------------------------------------------------------- Init
HandlerInit ==
  /\ ib = NewByteBuffer
  /\ ob = NewByteBuffer
  /\ obuf = <<>>
  /\ pc = "idle"
  /\ putBuff = <<>>
  /\ putIters = 0
  /\ calls = <<>>
  /\ written = <<>>
  /\ phase = "Uninitialized"
  /\ lastOp = [op |-> "new", len |-> 0, data |-> <<>>, phase |-> "Uninitialized",
               fault |-> FALSE, hook |-> FALSE, ipos |-> 0]
  /\ pre = [position |-> 0, bytes |-> <<>>, ncalls |-> 0]
  /\ nHelper = 0
  /\ usedHelpers = {}

\* under Spec the 32-bit record is not used
WidthOff ==
  [stage |-> "off", position |-> <<0, 0>>, length |-> <<0, 0>>,
   capacity |-> <<0, 0>>, position0 |-> <<0, 0>>, length0 |-> <<0, 0>>,
   flushed |-> FALSE]

Init == HandlerInit /\ w = WidthOff

\* ------------------------------------------------- calls from the java side
\* onSetup(inputBuffer, inputBufferCapacity, outputBuffer, outputBufferCapacity):
\* resets both buffers, then runs the setup() hook (empty by default)
OnSetup(icap, ocap) ==
  /\ pc = "idle"
  /\ ib' = ByteBufferReset("inputBuffer", icap)
  /\ ob' = ByteBufferReset("outputBuffer", ocap)
  /\ obuf' = [i \in 1..ocap |-> 0]
  /\ calls' = <<>>
  /\ written' = <<>>
  /\ nHelper' = 0
  /\ usedHelpers' = {}
  /\ phase' = "Ready"
  /\ lastOp' = Op("onSetup", 0, <<>>, FALSE, TRUE)
  /\ pre' = Snapshot
  /\ UNCHANGED <<pc, putBuff, putIters, w>>

\* onInputData(length)
OnInputData(length) ==
  /\ pc = "idle"
  /\ pre' = Snapshot
  /\ IF InputTooLong(length, ib.capacity)
       THEN \* THROW_EXCEPTION(IOException, ...)
            /\ lastOp' = [Op("onInputData", length, <<>>, TRUE, FALSE)
                            EXCEPT !.ipos = ib.position]
            /\ ib' = RefusedInput(ib, length)
            /\ UNCHANGED pc
       ELSE /\ ib' = SetInputPosition(ib, length)
            /\ lastOp' = [Op("onInputData", length, <<>>, FALSE, TRUE)
                            EXCEPT !.ipos = ib.position]
            /\ pc' = "hook"
  /\ UNCHANGED <<ob, obuf, putBuff, putIters, calls, written, phase, nHelper,
                 usedHelpers, w>>

\* handleInput returns, and with it onInputData
HandleInputReturn ==
  /\ pc = "hook"
  /\ pc' = "idle"
  /\ UNCHANGED <<ib, ob, obuf, putBuff, putIters, calls, written, phase, lastOp,
                 pre, nHelper, usedHelpers, w>>

\* onFinish() -> finish() { flush(); finishOutput(); }
OnFinish ==
  /\ pc = "idle"
  /\ Len(calls) + 2 <= MaxCalls
  /\ calls' = (IF FlushNeeded(ob.position)
                 THEN Append(calls, FlushCall(ob.position)) ELSE calls)
              \o <<FinishCall>>
  /\ ob' = IF FlushNeeded(ob.position) THEN [ob EXCEPT !.position = 0] ELSE ob
  /\ phase' = "Finished"
  /\ lastOp' = Op("onFinish", 0, <<>>, FALSE, TRUE)
  /\ pre' = Snapshot
  /\ UNCHANGED <<ib, obuf, pc, putBuff, putIters, written, nHelper, usedHelpers, w>>

\* onCommand(cmd) -> command(cmd) { return std::string(); }; the reply is
\* recorded as the data of lastOp
OnCommand(cmd) ==
  /\ pc = "idle"
  /\ lastOp' = Op("onCommand", Len(cmd), CommandReply(cmd), FALSE, TRUE)
  /\ pre' = Snapshot
  /\ UNCHANGED <<ib, ob, obuf, pc, putBuff, putIters, calls, written, phase,
                 nHelper, usedHelpers, w>>

\* ------------------------------------- helpers called by the subclass's hook
\* put(buff, length): entry
PutCall(n) ==
  /\ pc = "hook"
  /\ nHelper < MaxHelperCalls
  /\ pc' = "put"
  /\ putBuff' = PutData(n)
  /\ putIters' = 0
  /\ written' = written \o PutData(n)
  /\ lastOp' = Op("put", n, PutData(n), FALSE, FALSE)
  /\ pre' = Snapshot
  /\ nHelper' = nHelper + 1
  /\ usedHelpers' = usedHelpers \cup {"put"}
  /\ UNCHANGED <<ib, ob, obuf, calls, phase, w>>

\* put: one iteration of while (length > 0)
PutIter ==
  /\ pc = "put"
  /\ Len(putBuff) > 0
  /\ Len(calls) < MaxCalls
  /\ LET length == Len(putBuff)
         doFlush == PutNeedsFlush(ob.position, length, ob.capacity)
         position == IF doFlush THEN 0 ELSE ob.position
         remain == ob.capacity - position
         cp == PutCopyLen(length, remain)
     IN /\ calls' = IF doFlush THEN Append(calls, FlushCall(ob.position)) ELSE calls
        /\ obuf' = Store(obuf, position, SubSeq(putBuff, 1, cp))
        /\ putBuff' = SubSeq(putBuff, cp + 1, length)
        /\ ob' = [ob EXCEPT !.position = position + cp]
  /\ putIters' = putIters + 1
  /\ UNCHANGED <<ib, pc, written, phase, lastOp, pre, nHelper, usedHelpers, w>>

\* put: the loop ends when length = 0
PutReturn ==
  /\ pc = "put"
  /\ Len(putBuff) = 0
  /\ pc' = "hook"
  /\ UNCHANGED <<ib, ob, obuf, putBuff, putIters, calls, written, phase, lastOp,
                 pre, nHelper, usedHelpers, w>>

\* putInt(v).  A store that reaches past the capacity bytes of the buffer is
\* undefined behaviour: the call either goes on or the process dies.
PutInt(v) ==
  /\ pc = "hook"
  /\ nHelper < MaxHelperCalls
  /\ Len(calls) < MaxCalls
  /\ LET doFlush == PutIntNeedsFlush(ob.position, ob.capacity)
         position == IF doFlush THEN 0 ELSE ob.position
     IN /\ calls' = IF doFlush THEN Append(calls, FlushCall(ob.position)) ELSE calls
        /\ obuf' = Store(obuf, position, IntBytes(v))
        /\ ob' = [ob EXCEPT !.position = position + 4]
        /\ pc' \in IF position + 4 > Len(obuf) THEN {"hook", "crashed"} ELSE {"hook"}
  /\ written' = written \o IntBytes(v)
  /\ lastOp' = Op("putInt", 4, IntBytes(v), FALSE, FALSE)
  /\ pre' = Snapshot
  /\ nHelper' = nHelper + 1
  /\ usedHelpers' = usedHelpers \cup {"putInt"}
  /\ UNCHANGED <<ib, putBuff, putIters, phase, w>>

\* flush()
Flush ==
  /\ pc = "hook"
  /\ nHelper <= MaxHelperCalls
  /\ Len(calls) < MaxCalls
  /\ IF FlushNeeded(ob.position)
       THEN /\ calls' = Append(calls, FlushCall(ob.position))
            /\ ob' = [ob EXCEPT !.position = 0]
       ELSE UNCHANGED <<calls, ob>>
  /\ lastOp' = Op("flush", 0, <<>>, FALSE, FALSE)
  /\ pre' = Snapshot
  /\ nHelper' = nHelper + 1
  /\ usedHelpers' = usedHelpers \cup {"flush"}
  /\ UNCHANGED <<ib, obuf, pc, putBuff, putIters, written, phase, w>>

Next ==
  \/ \E icap \in InCaps, ocap \in OutCaps : OnSetup(icap, ocap)
  \/ \E length \in InputLens : OnInputData(length)
  \/ HandleInputReturn
  \/ OnFinish
  \/ \E cmd \in Commands : OnCommand(cmd)
  \/ \E n \in PutLens : PutCall(n)
  \/ PutIter
  \/ PutReturn
  \/ \E v \in IntValues : PutInt(v)
  \/ Flush

Spec == Init /\ [][Next]_vars

\* ------------------------------ put's loop at the width of uint32_t
\* A uint32_t is held as <<high half, low half>>, each half in 0..Half-1.
Half == 2 ^ 16

\* uint32_t a + b: the carry out of the high half is lost
U32Add(a, b) ==
  LET lo == a[2] + b[2]
      hi == a[1] + b[1] + (lo \div Half)
  IN <<hi % Half, lo % Half>>

\* uint32_t a - b: the borrow out of the high half is lost
U32Sub(a, b) ==
  LET lo == a[2] - b[2]
      hi == a[1] - b[1] - (IF lo < 0 THEN 1 ELSE 0)
  IN <<(hi + Half) % Half, (lo + Half) % Half>>

\* uint32_t a > b, a < b
U32Gt(a, b) == a[1] > b[1] \/ (a[1] = b[1] /\ a[2] > b[2])
U32Lt(a, b) == U32Gt(b, a)

\* put: if (_ob.position + length > _ob.capacity), on uint32_t
PutNeedsFlush32(position, length, capacity) ==
  U32Gt(U32Add(position, length), capacity)

\* put: uint32_t cp = length < remain ? length : remain, on uint32_t
PutCopyLen32(length, remain) == IF U32Lt(length, remain) THEN length ELSE remain

\* the 32-bit values a put is run on: 0, 1, 4, 0xFFFF, 0x10000, 0x10001,
\* 0x10004, 0x1FFFF, 0xFFFF0000, 0xFFFF0001, 0xFFFF0004, 0xFFFFFFFF
U32Samples == {0, 1, Half - 1} \X {0, 1, 4, Half - 1}

\* a put call about to run an iteration of its loop: position <= capacity
\* and length > 0
WidthInit ==
  /\ HandlerInit
  /\ \E p \in U32Samples, l \in U32Samples \ {<<0, 0>>} :
       \E c \in {x \in U32Samples : ~U32Gt(p, x)} :
         w = [stage |-> "entry", position |-> p, length |-> l, capacity |-> c,
              position0 |-> p, length0 |-> l, flushed |-> FALSE]

\* put: one iteration of while (length > 0), on uint32_t
PutIter32 ==
  /\ w.stage = "entry"
  /\ LET doFlush == PutNeedsFlush32(w.position, w.length, w.capacity)
         position == IF doFlush THEN <<0, 0>> ELSE w.position
         remain == U32Sub(w.capacity, position)
         cp == PutCopyLen32(w.length, remain)
     IN w' = [w EXCEPT !.stage = "iterated",
                       !.flushed = doFlush,
                       !.position = U32Add(position, cp),
                       !.length = U32Sub(w.length, cp)]
  /\ UNCHANGED <<ib, ob, obuf, pc, putBuff, putIters, calls, written, phase,
                 lastOp, pre, nHelper, usedHelpers>>

WidthNext == PutIter32

SpecWidth == WidthInit /\ [][WidthNext]_vars

\* --------------------------------------------------------------- claims
\* the outward calls made by the most recent operation
Emitted == SubSeq(calls, pre.ncalls + 1, Len(calls))

\* the bytes the flushOutput calls of a call sequence carried, in call order
RECURSIVE FlushedBytes(_)
FlushedBytes(cs) ==
  IF cs = <<>> THEN <<>>
  ELSE (IF Head(cs).call = "flushOutput" THEN Head(cs).bytes ELSE <<>>)
       \o FlushedBytes(Tail(cs))

\* C1 (flush completeness): on a set-up handler the bytes carried by the
\* flushOutput calls, in call order, followed by the bytes buffered in
\* [0, position) (and, inside a put, by the bytes put has not copied yet) are
\* exactly the bytes handed to put and putInt, in order.
C1_FlushCompleteness ==
  (phase # "Uninitialized" /\ pc # "crashed")
    => FlushedBytes(calls) \o Buffered \o putBuff = written

\* C2 (capacity invariant): after a put call returns, in a session whose
\* writes were all made by put, the output position is at most the capacity.
C2_CapacityInvariant ==
  (pc # "put" /\ "put" \in usedHelpers /\ "putInt" \notin usedHelpers)
    => ob.position <= ob.capacity

\* C2 witness: a 10-byte put into a capacity of 4 that already held 2 bytes
\* has returned after three flushes.
C2_Witness ==
  /\ pc = "hook" /\ usedHelpers = {"put"} /\ nHelper = 2
  /\ lastOp.op = "put" /\ lastOp.len = 10 /\ pre.position = 2
  /\ ob.capacity = 4 /\ ob.position = 2 /\ Len(calls) = 3

\* C3 (integer atomicity): right after putInt(v) on a set-up handler the four
\* bytes of v lie inside the output region, at [position - 4, position), so
\* that one flush carries them together.
C3_IntegerAtomicity ==
  (lastOp.op = "putInt" /\ lastOp.phase # "Uninitialized" /\ pc # "crashed")
    => /\ ob.position >= 4
       /\ ob.position <= ob.capacity
       /\ SubSeq(obuf, ob.position - 3, ob.position) = lastOp.data

\* C4 (bounds enforcement): onInputData(length) with length greater than the
\* input capacity ends with the fault and without running handleInput.
C4_BoundsEnforcement ==
  (lastOp.op = "onInputData" /\ lastOp.len > ib.capacity)
    => (lastOp.fault /\ ~lastOp.hook /\ pc = "idle")

\* C4 witness: onInputData(2) on a handler set up with input capacity 1
\* was refused.
C4_Witness ==
  /\ lastOp.op = "onInputData" /\ lastOp.phase = "Ready"
  /\ ib.capacity = 1 /\ lastOp.len = 2 /\ lastOp.fault

\* C5 (lifecycle ordering): an onInputData or onCommand call made before
\* onSetup, and an onInputData call made after onFinish, is rejected and its
\* hook is not run.
C5_LifecycleOrdering ==
  (\/ (lastOp.op \in {"onInputData", "onCommand"} /\ lastOp.phase = "Uninitialized")
   \/ (lastOp.op = "onInputData" /\ lastOp.phase = "Finished"))
    => (lastOp.fault /\ ~lastOp.hook)

\* C6: no flushOutput call follows a finishOutput call.
C6_NoFlushAfterFinish ==
  \A i, j \in 1..Len(calls) :
    (i < j /\ calls[i].call = "finishOutput") => calls[j].call # "flushOutput"

\* C7 (default finish): onFinish in the Ready state emits one flushOutput
\* carrying the buffered bytes, with length = position, exactly when
\* position > 0, then one finishOutput, and leaves position at 0; after
\* onSetup with nothing written the session's only outward call is finishOutput.
C7_DefaultFinish ==
  (lastOp.op = "onFinish" /\ lastOp.phase = "Ready")
    => /\ Emitted =
            (IF pre.position > 0
               THEN <<[call |-> "flushOutput", length |-> pre.position,
                       bytes |-> pre.bytes]>>
               ELSE <<>>)
            \o <<[call |-> "finishOutput", length |-> 0, bytes |-> <<>>]>>
       /\ ob.position = 0
       /\ (written = <<>> => calls = <<[call |-> "finishOutput", length |-> 0,
                                        bytes |-> <<>>]>>)

\* C7 witness: onFinish found two bytes buffered, flushed them and finished.
C7_Witness ==
  /\ lastOp.op = "onFinish" /\ lastOp.phase = "Ready"
  /\ pre.position = 2 /\ pre.bytes = <<1, 2>>
  /\ Len(calls) = 2 /\ calls[1].call = "flushOutput" /\ calls[2].call = "finishOutput"

\* Scenario A: put of the bytes 1..10 into an empty output region of
\* capacity 8 has returned
ScenarioA ==
  /\ lastOp.op = "put" /\ lastOp.data = <<1, 2, 3, 4, 5, 6, 7, 8, 9, 10>>
  /\ pc # "put" /\ ob.capacity = 8 /\ pre.position = 0

\* C8 as claimed (Scenario A): the put causes exactly two flushOutput calls,
\* the first carrying the first 8 bytes and the second carrying none, and
\* leaves the last 2 bytes buffered.
C8_ScenarioA_AsClaimed ==
  ScenarioA
    => /\ Len(Emitted) = 2
       /\ Emitted[1] = [call |-> "flushOutput", length |-> 8,
                        bytes |-> <<1, 2, 3, 4, 5, 6, 7, 8>>]
       /\ Emitted[2] = [call |-> "flushOutput", length |-> 0, bytes |-> <<>>]
       /\ ob.position = 2 /\ Buffered = <<9, 10>>

\* C8 as amended (Scenario A): the put causes exactly two flushOutput calls,
\* the first carrying no bytes (length 0) and the second carrying the first
\* 8 bytes, and leaves the last 2 bytes buffered.
C8_ScenarioA ==
  ScenarioA
    => /\ Emitted = << [call |-> "flushOutput", length |-> 0, bytes |-> <<>>],
                       [call |-> "flushOutput", length |-> 8,
                        bytes |-> <<1, 2, 3, 4, 5, 6, 7, 8>>] >>
       /\ ob.position = 2 /\ Buffered = <<9, 10>>

\* C8 witness: Scenario A as the first helper call of a Ready session.
C8_Witness == ScenarioA /\ phase = "Ready" /\ nHelper = 1 /\ pc = "hook"

\* C9 (region invariant): on a set-up handler both regions keep
\* 0 <= position <= capacity.
C9_RegionInvariant ==
  (phase # "Uninitialized" /\ pc # "crashed")
    => /\ 0 <= ib.position /\ ib.position <= ib.capacity
       /\ 0 <= ob.position /\ ob.position <= ob.capacity

\* C10 (put terminates): on a set-up handler every iteration of put's loop
\* copies at least one byte, so a put of length bytes is over after at most
\* length iterations (and as many flushes).
C10_PutTerminates ==
  (pc = "put" /\ lastOp.phase # "Uninitialized") => putIters <= lastOp.len

\* C11 (successful input delivery): onInputData(n) with n at most the input
\* capacity is accepted, sets the input position to n whatever it was, and
\* runs handleInput for the n bytes.
C11_InputDelivery ==
  (lastOp.op = "onInputData" /\ lastOp.len <= ib.capacity)
    => (~lastOp.fault /\ lastOp.hook /\ ib.position = lastOp.len)

\* C11 witness: an empty chunk delivered to a region whose position was 1
\* left the position at 0, inside handleInput.
C11_Witness ==
  /\ lastOp.op = "onInputData" /\ lastOp.phase = "Ready" /\ pc = "hook"
  /\ lastOp.ipos = 1 /\ lastOp.len = 0 /\ ib.position = 0 /\ ib.capacity = 1

\* C12 (command has no side effect): an onCommand call, made while no other
\* call is running, returns the empty reply and changes neither region, nor
\* the output memory, nor the outward calls.
C12_CommandNoSideEffect ==
  [][(pc = "idle" /\ lastOp'.op = "onCommand")
       => /\ lastOp'.data = <<>>
          /\ ib' = ib /\ ob' = ob /\ obuf' = obuf /\ calls' = calls]_vars

\* C12 witness: onCommand answered between two input deliveries, with one
\* input byte delivered and output bytes buffered.
C12_Witness ==
  /\ lastOp.op = "onCommand" /\ lastOp.phase = "Ready" /\ lastOp.data = <<>>
  /\ ib.position = 1 /\ ob.position = 2 /\ calls = <<>>

\* C13 (setup only once): an onSetup call on a handler that is Ready or
\* Finished is refused, and the output position it found is kept.
C13_SetupOnlyOnce ==
  (lastOp.op = "onSetup" /\ lastOp.phase # "Uninitialized")
    => (lastOp.fault /\ ob.position = pre.position)

\* the sum a + b of two 32-bit values, not cut to 32 bits, exceeds c
SumExceeds(a, b, c) ==
  LET lo == a[2] + b[2]
      hi == a[1] + b[1] + (lo \div Half)
  IN \/ hi >= Half
     \/ hi > c[1]
     \/ (hi = c[1] /\ lo % Half > c[2])

\* C14 (flush decision at 32 bits): an iteration of put's loop entered with
\* position <= capacity flushes exactly when position + length, not cut to
\* 32 bits, exceeds the capacity.
C14_FlushDecision32 ==
  w.stage = "iterated"
    => (w.flushed <=> SumExceeds(w.position0, w.length0, w.capacity))

\* C15 (putInt's flush): putInt emits exactly one flushOutput, with length
\* the position before the call and the bytes buffered then, when
\* capacity - position < 4, and no call otherwise; afterwards the position
\* is 4 (after a flush) or the old position plus 4.
C15_PutIntFlush ==
  lastOp.op = "putInt"
    => IF ob.capacity - pre.position < 4
         THEN /\ Emitted = <<[call |-> "flushOutput", length |-> pre.position,
                              bytes |-> pre.bytes]>>
              /\ ob.position = 4
         ELSE /\ Emitted = <<>>
              /\ ob.position = pre.position + 4

\* putInt has flushed 2 buffered bytes out of a region of 4 and stored at 0
C15_Witness ==
  /\ lastOp.op = "putInt" /\ ob.capacity = 4 /\ pre.position = 2
  /\ Len(Emitted) = 1 /\ Emitted[1].length = 2 /\ ob.position = 4
  /\ pc = "hook"

\* C16 (flush): a flush() call made with position > 0 emits exactly one
\* flushOutput whose length is the position and sets the position to 0; made
\* with position = 0 it emits no call and changes neither region; a flush()
\* that directly follows a flush() emits nothing.
C16_FlushOnce ==
  [][(lastOp'.op = "flush" /\ nHelper' = nHelper + 1)
       => /\ IF ob.position > 0
               THEN /\ calls' = Append(calls, [call |-> "flushOutput",
                                               length |-> ob.position,
                                               bytes |-> Buffered])
                    /\ ob' = [ob EXCEPT !.position = 0]
               ELSE /\ calls' = calls
                    /\ ob' = ob
          /\ ib' = ib /\ obuf' = obuf /\ pc' = pc
          /\ (lastOp.op = "flush" => calls' = calls)]_vars

\* put of 2 bytes, flush(), flush(): the first flush() emitted the 2 bytes,
\* the second one found position = 0 and emitted nothing
C16_Witness ==
  /\ lastOp.op = "flush" /\ nHelper = 3 /\ Len(written) = 2
  /\ pre.position = 0 /\ ob.position = 0 /\ Emitted = <<>>
  /\ Len(calls) = 1 /\ calls[1].length = 2 /\ calls[1].bytes = written

\* C17 (capacity fixed after setup): a step of any operation other than
\* onSetup (onInputData, onCommand, onFinish, put, putInt, flush and the
\* returns of the hook) leaves the buffer binding and the capacity of the
\* input region and of the output region as they were.
C17_CapacityFixed ==
  [][~(pc = "idle" /\ lastOp'.op = "onSetup")
       => /\ ib'.buff = ib.buff /\ ib'.capacity = ib.capacity
          /\ ob'.buff = ob.buff /\ ob'.capacity = ob.capacity]_vars

\* a session bound to regions of 1 and 8 bytes has delivered input, called
\* put, putInt and flush and finished: the bindings are those of setup
C17_Witness ==
  /\ lastOp.op = "onFinish" /\ lastOp.phase = "Ready"
  /\ usedHelpers = {"put", "putInt", "flush"} /\ Len(written) = 6
  /\ ib = [buff |-> "inputBuffer", capacity |-> 1, position |-> 0]
  /\ ob = [buff |-> "outputBuffer", capacity |-> 8, position |-> 0]

\* C18 (flush lengths): every flushOutput call emitted in the session carries
\* a length between 1 and the output capacity.
C18_FlushLength ==
  \A i \in 1..Len(calls) :
    calls[i].call = "flushOutput"
      => (1 <= calls[i].length /\ calls[i].length <= ob.capacity)

\* C19 (refused input changes nothing): an onInputData call that throws the
\* bounds exception leaves the input region (its position included), the
\* output region and its memory as they were and emits no outward call.
C19_RefusedInputFrame ==
  [][(pc = "idle" /\ lastOp'.op = "onInputData" /\ lastOp'.fault)
       => /\ ib' = ib /\ ob' = ob /\ obuf' = obuf
          /\ calls' = calls /\ pc' = pc]_vars

\* onInputData(2) was refused by an input region of 1 byte whose position
\* was 1, with 2 bytes buffered for output: position 1 and the 2 bytes stay
C19_Witness ==
  /\ lastOp.op = "onInputData" /\ lastOp.fault /\ lastOp.len = 2
  /\ lastOp.ipos = 1 /\ ib.position = 1 /\ ib.capacity = 1
  /\ pre.position = 2 /\ ob.position = 2 /\ Emitted = <<>> /\ pc = "idle"

TypeOK ==
  /\ pc \in {"idle", "hook", "put", "crashed"}
  /\ phase \in {"Uninitialized", "Ready", "Finished"}
  /\ Len(obuf) = ob.capacity
  /\ nHelper \in 0..(MaxHelperCalls + 1)
  /\ Len(calls) <= MaxCalls
====
